---- MODULE Spec2Model ----
(***************************************************************************)
(* BucketMap (bucket_map/src/bucket_map.rs): a sharded map from 32-byte    *)
(* keys to (value list, ref count).  The router (BucketMap) is translated  *)
(* from bucket_map.rs.  The shard (crate::bucket::Bucket) is not part of   *)
(* the sources at hand; it is modelled from sections 3 and 4.2-4.4 of the  *)
(* specification and every such definition carries the prefix Bucket_,     *)
(* Index_ or Data_.                                                        *)
(***************************************************************************)
EXTENDS Integers, Sequences, FiniteSets, TLC

VARIABLES
    buckets,           \* BucketMap.buckets: shard number -> None or a Bucket
    max_buckets_pow2,  \* BucketMap.max_buckets_pow2
    max_search,        \* BucketMap.max_search
    hash_map,          \* the reference dictionary of tests::hashmap_compare
    all_keys,          \* the keys the callers use (all_keys of hashmap_compare)
    all_values,        \* the (list, ref count) pairs they write (gen_rand_value)
    result,            \* the error the last try_insert returned, while the caller holds it
    probe,             \* the last bucket_ix computation of SpecIx
    locks,             \* shard number -> the guards out on its RwLock
    threads,           \* thread -> the call it is in and where it is in it
    drives,            \* BucketMap.drives: the directories the shards' files go to
    temp_dir,          \* BucketMap.temp_dir: the private directory, or None
    disk,              \* directory -> the files in it
    dropped            \* the map has been dropped

vars == <<buckets, max_buckets_pow2, max_search, hash_map, all_keys, all_values, result,
          probe, locks, threads, drives, temp_dir, disk, dropped>>

None == [some |-> FALSE]
Some(x) == [some |-> TRUE, val |-> x]

(***************************************************************************)
(* Bounds of the model.                                                    *)
(***************************************************************************)
\* largest ref count a call passes in or addref counts up to
MaxRef == 1
\* an index is grown up to 2^MaxIndexPow slots
MaxIndexPow == 2
\* a data class is grown up to 2^MaxDataPow blocks
MaxDataPow == 2
\* largest config.max_buckets of SpecNew
MaxNewBuckets == 9
\* largest config.max_buckets of SpecIx is 2^MaxIxPow
MaxIxPow == 9

(***************************************************************************)
(* Program constants.                                                      *)
(***************************************************************************)
\* const MAX_SEARCH: MaxSearch = 32
MAX_SEARCH == 32
\* u64::BITS, usize::BITS on the 64-bit targets the crate is built for
U64_BITS == 64
\* std::mem::size_of::<u64>()
SIZE_OF_U64 == 8

(***************************************************************************)
(* 64-bit words.  TLC's integers are 32 bits wide, so a u64 is the         *)
(* sequence of its 8 bytes, most significant first.                        *)
(***************************************************************************)
\* the largest integer the model represents; AsUsize saturates there
ModelIntMax == (2 ^ 30) + ((2 ^ 30) - 1)

\* u64::from_be_bytes(input[0..8]); the assert on the length is the guard
read_be_u64(input) ==
    IF Len(input) >= SIZE_OF_U64 THEN SubSeq(input, 1, SIZE_OF_U64) ELSE <<>>

\* x >> n on u64.  n < 64 in every call the program makes; for n >= 64 a debug
\* build panics and a release build shifts by n % 64.
Shr(x, n) ==
    LET m == n % U64_BITS
        q == m \div 8
        r == m % 8
        byte(i) == IF i >= 1 THEN x[i] ELSE 0
    IN  [i \in 1..SIZE_OF_U64 |->
            (byte(i - q) \div (2 ^ r)) + ((byte(i - q - 1) % (2 ^ r)) * (2 ^ (8 - r)))]

\* `as usize`: the identity on 64-bit targets.  Values of 2^31 and more do not
\* fit a TLC integer and are all represented by ModelIntMax.
AsUsize(x) ==
    IF (\E i \in 1..4 : x[i] # 0) \/ x[5] >= 128
    THEN ModelIntMax
    ELSE ((x[5] * 256 + x[6]) * 256 + x[7]) * 256 + x[8]

\* usize::leading_zeros of a positive x below 2^31
RECURSIVE BitLength(_)
BitLength(x) == IF x = 0 THEN 0 ELSE 1 + BitLength(x \div 2)

leading_zeros(x) == U64_BITS - BitLength(x)

\* let log2 = |x: usize| usize::BITS - x.leading_zeros() - 1;
log2(x) == U64_BITS - leading_zeros(x) - 1

is_power_of_two(x) == x > 0 /\ 2 ^ (BitLength(x) - 1) = x

Min(S) == CHOOSE x \in S : \A y \in S : x <= y

\* Vec::len, slice::len
Length(s) == Cardinality(DOMAIN s)

(***************************************************************************)
(* The shard, crate::bucket::Bucket, after sections 3 and 4.2-4.4 of the   *)
(* specification.                                                          *)
(***************************************************************************)
\* power of two of the capacity a fresh index or data class region has
DEFAULT_CAPACITY_POW2 == 1

NoSlot == -1
NoLoc == [has |-> FALSE, class |-> 0, block |-> 0]
Loc(c, blk) == [has |-> TRUE, class |-> c, block |-> blk]

\* section 3, index slot: occupancy, key, ref_count, data_location, length
FreeSlot == [occ |-> FALSE, key |-> <<>>, ref_count |-> 0, loc |-> NoLoc, len |-> 0]
OccupiedSlot(key, rc, loc, n) ==
    [occ |-> TRUE, key |-> key, ref_count |-> rc, loc |-> loc, len |-> n]

\* BucketMapError, and Ok(()) of Result<(), BucketMapError>
Ok == [type |-> "Ok", ix |-> 0, pow |-> 0]
DataNoSpace(c, q) == [type |-> "DataNoSpace", ix |-> c, pow |-> q]
IndexNoSpace(p) == [type |-> "IndexNoSpace", ix |-> 0, pow |-> p]

Index_new(p) == [pow |-> p, slots |-> [i \in 1..(2 ^ p) |-> FreeSlot]]

\* section 4.1/4.3: a zero-initialised region of 2^q blocks of 2^c elements
Data_new_region(c, q) ==
    [pow |-> q,
     blocks |-> [i \in 1..(2 ^ q) |-> [used |-> FALSE, cells |-> [j \in 1..(2 ^ c) |-> 0]]]]

\* Bucket::new(drives, max_search, stats): an empty index, no data class yet
Bucket_new(ms) ==
    [max_search |-> ms, index |-> Index_new(DEFAULT_CAPACITY_POW2), data |-> <<>>]

\* section 4.2: home = (V >> (64 - log2(N_shards) - p)) & (2^p - 1)
Index_home(key, p) ==
    AsUsize(Shr(read_be_u64(key), U64_BITS - max_buckets_pow2 - p)) % (2 ^ p)

\* the probe window: slots home, home+1, ..., home+max_search-1, wrapping.
\* A window longer than the region visits the same slots again, so its first
\* 2^pow probes decide every search.
Index_window(idx, key, ms) ==
    LET cap == 2 ^ idx.pow
        h == Index_home(key, idx.pow)
        n == IF ms > cap THEN cap ELSE ms
    IN  [i \in 1..n |-> (h + i - 1) % cap]

\* section 4.2 find: the first Occupied slot of the window holding key
Index_find(idx, key, ms) ==
    LET w == Index_window(idx, key, ms)
        hits == {i \in DOMAIN w : idx.slots[w[i] + 1].occ /\ idx.slots[w[i] + 1].key = key}
    IN  IF hits = {} THEN NoSlot ELSE w[Min(hits)]

\* section 4.2 find_free: the first Free slot of the window
Index_find_free(idx, key, ms) ==
    LET w == Index_window(idx, key, ms)
        hits == {i \in DOMAIN w : ~idx.slots[w[i] + 1].occ}
    IN  IF hits = {} THEN NoSlot ELSE w[Min(hits)]

\* section 4.3: c = ceil(log2(max(n, 1)))
RECURSIVE CeilLog2(_, _)
CeilLog2(n, c) == IF 2 ^ c >= n THEN c ELSE CeilLog2(n, c + 1)

Data_class(n) == CeilLog2(IF n > 1 THEN n ELSE 1, 0)

\* section 4.3 alloc: the first Free block of the max_search blocks from the
\* rotating cursor on (a longer scan visits the region once); NoSlot is a miss
Data_alloc(region, ms, cursor) ==
    LET cap == 2 ^ region.pow
        n == IF ms > cap THEN cap ELSE ms
        start == cursor % cap
        hits == {i \in 1..n : ~region.blocks[((start + i - 1) % cap) + 1].used}
    IN  IF hits = {} THEN NoSlot ELSE (start + Min(hits) - 1) % cap

\* The positions the cursor of the class of a list of n elements can have.
\* The specification does not say how the cursor rotates, so a call scans
\* from any of them.
Data_cursors(data, n) ==
    IF Length(data) <= Data_class(n) THEN {0}
    ELSE 0..((2 ^ data[Data_class(n) + 1].pow) - 1)

\* section 4.3 write: copy the elements in, mark the block Used
Data_write(data, c, blk, values, used) ==
    LET old == data[c + 1].blocks[blk + 1]
        cells == [j \in 1..(2 ^ c) |->
                     IF j <= Length(values) THEN values[j] ELSE old.cells[j]]
    IN  [data EXCEPT ![c + 1].blocks[blk + 1] = [used |-> used, cells |-> cells]]

\* section 4.3 free: mark the block Free.  No read reaches the cells of a Free
\* block (ShardInv), so the model keeps them at the region's initial zeros.
Data_free(data, loc) ==
    IF loc.has
    THEN [data EXCEPT ![loc.class + 1].blocks[loc.block + 1] =
                          [used |-> FALSE, cells |-> [j \in 1..(2 ^ loc.class) |-> 0]]]
    ELSE data

\* section 4.3 read: the first length elements of the block
Data_read(data, loc, n) ==
    IF n = 0 \/ ~loc.has THEN <<>>
    ELSE [j \in 1..n |-> data[loc.class + 1].blocks[loc.block + 1].cells[j]]

\* section 4.4 read_value
Bucket_read_value(b, key) ==
    LET s == Index_find(b.index, key, b.max_search)
    IN  IF s = NoSlot THEN None
        ELSE LET e == b.index.slots[s + 1]
             IN  Some(<<Data_read(b.data, e.loc, e.len), e.ref_count>>)

\* section 4.4 try_write with the data scan starting at cursor: [bucket,
\* result].  An error leaves the bucket as it was.
Bucket_try_write(b, key, values, rc, cursor) ==
    LET n == Length(values)
        c == Data_class(n)
        s == Index_find(b.index, key, b.max_search)
        e == b.index.slots[s + 1]
        f == IF s # NoSlot THEN s ELSE Index_find_free(b.index, key, b.max_search)
        old == IF s # NoSlot THEN e.loc ELSE NoLoc
        err(r) == [bucket |-> b, result |-> r]
        commit(data, loc) ==
            [bucket |-> [b EXCEPT !.data = data,
                                  !.index.slots[f + 1] = OccupiedSlot(key, rc, loc, n)],
             result |-> Ok]
        blk == Data_alloc(b.data[c + 1], b.max_search, cursor)
    IN  IF Length(b.data) <= c
        THEN err(DataNoSpace(c, 0))                   \* no region of class c yet
        ELSE IF s # NoSlot /\ e.loc.has /\ e.loc.class = c
        THEN commit(Data_write(b.data, c, e.loc.block, values, TRUE), e.loc)
        ELSE IF n = 0
        THEN IF f = NoSlot THEN err(IndexNoSpace(b.index.pow))
             ELSE commit(Data_free(b.data, old), NoLoc)
        ELSE IF blk = NoSlot THEN err(DataNoSpace(c, b.data[c + 1].pow))
        ELSE IF f = NoSlot THEN err(IndexNoSpace(b.index.pow))
        ELSE commit(Data_write(Data_free(b.data, old), c, blk, values, TRUE), Loc(c, blk))

\* section 4.2 grow policy: reinsert every Occupied slot of the old region,
\* from slot i on in slot order, keeping its data_location; ok is FALSE on a
\* search window overflow
RECURSIVE Index_reinsert(_, _, _, _)
Index_reinsert(idx, old, i, ms) ==
    IF i > 2 ^ old.pow THEN [ok |-> TRUE, index |-> idx]
    ELSE LET e == old.slots[i]
         IN  IF ~e.occ THEN Index_reinsert(idx, old, i + 1, ms)
             ELSE LET f == Index_find_free(idx, e.key, ms)
                  IN  IF f = NoSlot THEN [ok |-> FALSE, index |-> idx]
                      ELSE Index_reinsert([idx EXCEPT !.slots[f + 1] = e],
                                          old, i + 1, ms)

\* double the index; when a reinsertion fails grow again.  ok is FALSE for an
\* index the model does not grow to (more than 2^MaxIndexPow slots).
RECURSIVE Index_grow(_, _, _)
Index_grow(idx, p, ms) ==
    IF p > MaxIndexPow THEN [ok |-> FALSE, index |-> idx]
    ELSE LET n == Index_reinsert(Index_new(p), idx, 1, ms)
         IN  IF n.ok THEN n ELSE Index_grow(idx, p + 1, ms)

\* section 4.3 grow_class: double the region; blocks keep their indices.  ok
\* is FALSE for a region the model does not grow to.
Data_grow_class(region, c) ==
    IF region.pow + 1 > MaxDataPow THEN [ok |-> FALSE, region |-> region]
    ELSE [ok |-> TRUE,
          region |-> [pow |-> region.pow + 1,
                      blocks |-> [i \in 1..(2 ^ (region.pow + 1)) |->
                                     IF i <= 2 ^ region.pow THEN region.blocks[i]
                                     ELSE Data_new_region(c, 0).blocks[1]]]]

\* the regions of the classes up to c that do not exist yet
Data_create(data, c) ==
    [i \in 1..(c + 1) |->
        IF i <= Length(data) THEN data[i]
        ELSE Data_new_region(i - 1, DEFAULT_CAPACITY_POW2)]

\* section 4.4 grow: index grow or data class grow; a signal that names a
\* capacity the storage no longer has is a no-op.  [ok, bucket]
Bucket_grow(b, e) ==
    IF e.type = "IndexNoSpace"
    THEN IF b.index.pow # e.pow THEN [ok |-> TRUE, bucket |-> b]
         ELSE LET n == Index_grow(b.index, b.index.pow + 1, b.max_search)
              IN  [ok |-> n.ok, bucket |-> [b EXCEPT !.index = n.index]]
    ELSE IF e.type = "DataNoSpace"
    THEN LET d == IF Length(b.data) <= e.ix THEN Data_create(b.data, e.ix) ELSE b.data
         IN  IF d[e.ix + 1].pow # e.pow THEN [ok |-> TRUE, bucket |-> [b EXCEPT !.data = d]]
             ELSE LET r == Data_grow_class(d[e.ix + 1], e.ix)
                  IN  [ok |-> r.ok,
                       bucket |-> [b EXCEPT !.data = [d EXCEPT ![e.ix + 1] = r.region]]]
    ELSE [ok |-> TRUE, bucket |-> b]

\* section 4.4 insert: try_write; on NeedsGrow grow and retry.  The buckets
\* the loop can end with; a run that needs a storage beyond the model's
\* bounds has no outcome here.
RECURSIVE Bucket_insert(_, _, _, _)
Bucket_insert(b, key, values, rc) ==
    UNION {LET o == Bucket_try_write(b, key, values, rc, cursor)
               g == Bucket_grow(b, o.result)
           IN  IF o.result = Ok THEN {o.bucket}
               ELSE IF g.ok THEN Bucket_insert(g.bucket, key, values, rc)
               ELSE {}
           : cursor \in Data_cursors(b.data, Length(values))}

\* TRUE when every run of the loop of insert returns, none needing a storage
\* beyond the model's bounds
RECURSIVE Bucket_insert_returns(_, _, _, _)
Bucket_insert_returns(b, key, values, rc) ==
    \A cursor \in Data_cursors(b.data, Length(values)) :
        LET o == Bucket_try_write(b, key, values, rc, cursor)
            g == Bucket_grow(b, o.result)
        IN  \/ o.result = Ok
            \/ g.ok /\ Bucket_insert_returns(g.bucket, key, values, rc)

\* section 4.4 delete: free the block the slot references; clear the slot
Bucket_delete_key(b, key) ==
    LET s == Index_find(b.index, key, b.max_search)
        e == b.index.slots[s + 1]
    IN  IF s = NoSlot THEN b
        ELSE [b EXCEPT !.data = Data_free(b.data, e.loc),
                       !.index.slots[s + 1] = FreeSlot]

\* The closures update is called with (tests): |_| Some((v, rc)), |_| None,
\* and |current| Some((current.unwrap().0, rc)); a closure is the record of
\* its kind and captured value, and ApplyFn is its call.
SetFn(value) == [kind |-> "set", val |-> value]

UpdateFns ==
    {SetFn(w) : w \in all_values}
    \cup {[kind |-> "none", val |-> <<<<>>, 0>>]}
    \cup {[kind |-> "rc", val |-> <<<<>>, r>>] : r \in {0, MaxRef}}

\* cur -> cur with the ref count + 1
IncFn == [kind |-> "inc", val |-> <<<<>>, 0>>]

\* _ -> None
NoneFn == [kind |-> "none", val |-> <<<<>>, 0>>]

ApplyFn(f, current) ==
    IF f.kind = "set" THEN Some(f.val)
    ELSE IF f.kind = "none" THEN None
    ELSE IF f.kind = "inc"
    THEN (IF current.some THEN Some(<<current.val[1], current.val[2] + 1>>) ELSE None)
    ELSE Some(<<current.val[1], f.val[2]>>)      \* current.unwrap()

\* section 4.4 update: read current, call the transformer once, then insert or delete
Bucket_update(b, key, updatefn) ==
    LET updated == ApplyFn(updatefn, Bucket_read_value(b, key))
    IN  IF updated.some THEN Bucket_insert(b, key, updated.val[1], updated.val[2])
        ELSE {Bucket_delete_key(b, key)}

\* section 4.4 addref: [bucket, ret]
Bucket_addref(b, key) ==
    LET s == Index_find(b.index, key, b.max_search)
        e == b.index.slots[s + 1]
    IN  IF s = NoSlot THEN [bucket |-> b, ret |-> None]
        ELSE [bucket |-> [b EXCEPT !.index.slots[s + 1].ref_count = e.ref_count + 1],
              ret |-> Some(e.ref_count + 1)]

\* section 4.4 unref: a zero ref count stays zero
Bucket_unref(b, key) ==
    LET s == Index_find(b.index, key, b.max_search)
        e == b.index.slots[s + 1]
    IN  IF s = NoSlot THEN [bucket |-> b, ret |-> None]
        ELSE IF e.ref_count = 0 THEN [bucket |-> b, ret |-> Some(0)]
        ELSE [bucket |-> [b EXCEPT !.index.slots[s + 1].ref_count = e.ref_count - 1],
              ret |-> Some(e.ref_count - 1)]

\* BucketItem { pubkey, ref_count, slot_list }
BucketItem(b, e) ==
    [pubkey |-> e.key, ref_count |-> e.ref_count,
     slot_list |-> Data_read(b.data, e.loc, e.len)]

\* section 4.4 items_in_range(None): the Occupied slots, in slot order
RECURSIVE Bucket_items_from(_, _)
Bucket_items_from(b, i) ==
    IF i > 2 ^ b.index.pow THEN <<>>
    ELSE (IF b.index.slots[i].occ THEN <<BucketItem(b, b.index.slots[i])>> ELSE <<>>)
         \o Bucket_items_from(b, i + 1)

Bucket_items_in_range(b) == Bucket_items_from(b, 1)

\* section 4.4 keys(): the keys of the Occupied slots, in slot order
Bucket_keys(b) ==
    [i \in DOMAIN Bucket_items_in_range(b) |-> Bucket_items_in_range(b)[i].pubkey]

\* bucket_len(): the number of Occupied slots
Bucket_bucket_len(b) ==
    Cardinality({i \in 1..(2 ^ b.index.pow) : b.index.slots[i].occ})

(***************************************************************************)
(* The router, BucketMap, from bucket_map.rs.  Every operation is an       *)
(* operator on the vector of shards bs (self.buckets) that yields what the *)
(* call leaves and returns, and an action that applies it to the state.    *)
(***************************************************************************)
\* keys: the 8 bytes read_be_u64 reads and one byte for the other 24
Key(b0, b1, rest) == <<b0, b1, 0, 0, 0, 0, 0, 0, rest>>

\* K1 and K2 share their first 8 bytes; K3 has the top bit set; K4 differs
\* from K1 in the second bit
K1 == Key(0, 0, 1)
K2 == Key(0, 0, 2)
K3 == Key(128, 0, 1)
K4 == Key(64, 0, 1)
AllKeys == {K1, K2, K3, K4}

\* (value list, ref count) pairs that calls write: lists of the lengths 0..2
\* of tests::hashmap_compare (max_slot_list_len = 3)
Writes == {<<<<>>, 0>>, <<<<1>>, MaxRef>>, <<<<2>>, 0>>, <<<<1, 2>>, MaxRef>>}
\* the pairs whose list has at most one element (data class 0)
ShortWrites == {w \in Writes : Len(w[1]) <= 1}

\* The maps the model builds and the workload run on each: a BucketMapConfig
\* (max_buckets; max_search Some(1), or None for MAX_SEARCH), the keys and the
\* pairs written.  With max_search 1 the keys K1, K4 part once the index has
\* four slots, and K1, K2 share their home slot at every size.  max_buckets 0
\* and 3 fail the asserts of new.
Workload(n, ms, keys, values) ==
    [max_buckets |-> n, max_search |-> ms, keys |-> keys, values |-> values]

Workloads ==
    {Workload(1, None, {K1, K2}, Writes),
     Workload(2, None, {K1, K3}, Writes),
     Workload(1, Some(1), {K1, K4}, ShortWrites),
     Workload(1, Some(1), {K1, K2}, ShortWrites),
     Workload(0, None, {K1, K2}, Writes),
     Workload(3, None, {K1, K3}, Writes)}

\* pub fn num_buckets(&self) -> usize
num_buckets(bs) == Cardinality(DOMAIN bs)

\* bucket_ix shifting by 64 - max_buckets_pow2 whatever max_buckets_pow2 is
bucket_ix_unguarded(key) ==
    AsUsize(Shr(read_be_u64(key), U64_BITS - max_buckets_pow2))

\* pub fn bucket_ix(&self, key: &Pubkey) -> usize
bucket_ix(key) ==
    IF max_buckets_pow2 > 0
    THEN AsUsize(Shr(read_be_u64(key), U64_BITS - max_buckets_pow2))
    ELSE 0

\* read_value taking a key with an empty list for an absent key
read_value_empty_is_none(bs, key) ==
    LET ix == bucket_ix(key)
        r == IF bs[ix].some THEN Bucket_read_value(bs[ix].val, key) ELSE None
    IN  IF r.some /\ r.val[1] = <<>> THEN None ELSE r

\* pub fn read_value(&self, key: &Pubkey) -> Option<(Vec<T>, RefCount)>
read_value(bs, key) ==
    LET ix == bucket_ix(key)
    IN  IF bs[ix].some THEN Bucket_read_value(bs[ix].val, key) ELSE None

\* items_in_range reading self.buckets[0] for every ix
items_in_range_first(bs, ix) ==
    IF bs[0].some THEN Bucket_items_in_range(bs[0].val) ELSE <<>>

\* pub fn items_in_range(&self, ix, &None) -> Vec<BucketItem<T>>
items_in_range(bs, ix) ==
    IF bs[ix].some THEN Bucket_items_in_range(bs[ix].val) ELSE <<>>

\* pub fn bucket_len(&self, ix: usize) -> u64
bucket_len(bs, ix) ==
    IF bs[ix].some THEN Bucket_bucket_len(bs[ix].val) ELSE 0

\* pub fn keys(&self, ix: usize) -> Vec<Pubkey>
keys(bs, ix) ==
    IF bs[ix].some THEN Bucket_keys(bs[ix].val) ELSE <<>>

\* get_bucket creating the shard on every call
get_bucket_always_new(bs, ix) == Bucket_new(max_search)

\* fn get_bucket(&self, ix): the shard, created when it is None
get_bucket(bs, ix) ==
    IF bs[ix].some THEN bs[ix].val ELSE Bucket_new(max_search)

\* insert writing to a shard it creates without storing it in self.buckets
insert_created_not_stored(bs, ix, key, value) ==
    IF bs[ix].some
    THEN {[bs EXCEPT ![ix] = Some(b)] :
             b \in Bucket_insert(bs[ix].val, key, value[1], value[2])}
    ELSE {bs}

\* insert giving up at the first capacity error instead of growing
insert_no_retry(bs, ix, key, value) ==
    LET b == get_bucket(bs, ix)
    IN  {[bs EXCEPT ![ix] = Some(o.bucket)] :
            o \in {r \in {Bucket_try_write(b, key, value[1], value[2], cursor) :
                              cursor \in Data_cursors(b.data, Length(value[1]))} :
                      r.result = Ok}}

\* pub fn insert(&self, ix, key, value): the shard vectors the call can leave
insert(bs, ix, key, value) ==
    {[bs EXCEPT ![ix] = Some(b)] :
        b \in Bucket_insert(get_bucket(bs, ix), key, value[1], value[2])}

\* try_insert that creates the key's index slot before the data allocation
\* fails
try_insert_at_partial(bs, ix, key, value, cursor) ==
    LET b == get_bucket(bs, ix)
        o == Bucket_try_write(b, key, value[1], value[2], cursor)
        f == Index_find_free(b.index, key, b.max_search)
        created ==
            IF /\ o.result.type = "DataNoSpace"
               /\ Index_find(b.index, key, b.max_search) = NoSlot
               /\ f # NoSlot
            THEN [b EXCEPT !.index.slots[f + 1] = OccupiedSlot(key, value[2], NoLoc, 0)]
            ELSE o.bucket
    IN  [buckets |-> [bs EXCEPT ![ix] = Some(created)], result |-> o.result]

\* try_insert when the shard's data scan starts at cursor: what the call
\* leaves and returns
try_insert_at(bs, ix, key, value, cursor) ==
    LET o == Bucket_try_write(get_bucket(bs, ix), key, value[1], value[2], cursor)
    IN  [buckets |-> [bs EXCEPT ![ix] = Some(o.bucket)], result |-> o.result]

\* pub fn try_insert(&self, ix, key, value) -> Result<(), BucketMapError>
try_insert(bs, ix, key, value) ==
    {try_insert_at(bs, ix, key, value, cursor) :
        cursor \in Data_cursors(get_bucket(bs, ix).data, Length(value[1]))}

\* grow that doubles the storage err names whatever capacity err carries
grow_whatever_capacity(bs, ix, err) ==
    LET b == get_bucket(bs, ix)
        now == IF err.type = "IndexNoSpace" THEN IndexNoSpace(b.index.pow)
               ELSE IF Length(b.data) > err.ix
               THEN DataNoSpace(err.ix, b.data[err.ix + 1].pow)
               ELSE err
        g == Bucket_grow(b, now)
    IN  [ok |-> g.ok, buckets |-> [bs EXCEPT ![ix] = Some(g.bucket)]]

\* pub fn grow(&self, ix, err); ok is FALSE beyond the model's bounds
grow(bs, ix, err) ==
    LET g == Bucket_grow(get_bucket(bs, ix), err)
    IN  [ok |-> g.ok, buckets |-> [bs EXCEPT ![ix] = Some(g.bucket)]]

\* section 4.4 update: the arguments of the calls of the transformer, in order
Bucket_update_calls(b, key) == <<Bucket_read_value(b, key)>>

\* the calls of updatefn that update(key, updatefn) makes
update_calls(bs, key) == Bucket_update_calls(get_bucket(bs, bucket_ix(key)), key)

\* update that writes what updatefn returns and leaves the key where it
\* returns None
update_never_deletes(bs, key, updatefn) ==
    LET ix == bucket_ix(key)
        b == get_bucket(bs, ix)
    IN  IF ApplyFn(updatefn, Bucket_read_value(b, key)).some
        THEN {[bs EXCEPT ![ix] = Some(n)] : n \in Bucket_update(b, key, updatefn)}
        ELSE {[bs EXCEPT ![ix] = Some(b)]}

\* update that leaves a key it finds as it is
update_absent_only(bs, key, updatefn) ==
    LET ix == bucket_ix(key)
        b == get_bucket(bs, ix)
    IN  IF Bucket_read_value(b, key).some THEN {[bs EXCEPT ![ix] = Some(b)]}
        ELSE {[bs EXCEPT ![ix] = Some(n)] : n \in Bucket_update(b, key, updatefn)}

\* pub fn update<F>(&self, key, updatefn)
update(bs, key, updatefn) ==
    LET ix == bucket_ix(key)
    IN  {[bs EXCEPT ![ix] = Some(b)] :
            b \in Bucket_update(get_bucket(bs, ix), key, updatefn)}

\* delete_key on self.buckets[0] whatever bucket_ix(key) is
delete_key_first(bs, key) ==
    IF bs[0].some
    THEN [bs EXCEPT ![0] = Some(Bucket_delete_key(bs[0].val, key))]
    ELSE bs

\* pub fn delete_key(&self, key)
delete_key(bs, key) ==
    LET ix == bucket_ix(key)
    IN  IF bs[ix].some
        THEN [bs EXCEPT ![ix] = Some(Bucket_delete_key(bs[ix].val, key))]
        ELSE bs

\* addref returning the count it found
addref_returns_previous(bs, key) ==
    LET ix == bucket_ix(key)
        r == Bucket_addref(bs[ix].val, key)
    IN  IF bs[ix].some
        THEN [buckets |-> [bs EXCEPT ![ix] = Some(r.bucket)],
              ret |-> IF r.ret.some THEN Some(r.ret.val - 1) ELSE None]
        ELSE [buckets |-> bs, ret |-> None]

\* pub fn addref(&self, key) -> Option<RefCount>
addref(bs, key) ==
    LET ix == bucket_ix(key)
        r == Bucket_addref(bs[ix].val, key)
    IN  IF bs[ix].some
        THEN [buckets |-> [bs EXCEPT ![ix] = Some(r.bucket)], ret |-> r.ret]
        ELSE [buckets |-> bs, ret |-> None]

\* unref taking the shard through get_bucket, which creates it
unref_get_bucket(bs, key) ==
    LET ix == bucket_ix(key)
        r == Bucket_unref(get_bucket(bs, ix), key)
    IN  [buckets |-> [bs EXCEPT ![ix] = Some(r.bucket)], ret |-> r.ret]

\* pub fn unref(&self, key) -> Option<RefCount>
unref(bs, key) ==
    LET ix == bucket_ix(key)
        r == Bucket_unref(bs[ix].val, key)
    IN  IF bs[ix].some
        THEN [buckets |-> [bs EXCEPT ![ix] = Some(r.bucket)], ret |-> r.ret]
        ELSE [buckets |-> bs, ret |-> None]

(***************************************************************************)
(* Threads calling into one map.  A thread is idle or in one call; pc is   *)
(* where it is in the call: "lock" (at .read() / .write()), "locked",      *)
(* "body", "write", "grow" (in the shard, under the guard) and "unlock"    *)
(* (the guard is about to be dropped at the end of the function).          *)
(***************************************************************************)
\* threads of SpecThreads
NThreads == 2

Threads == 1..NThreads

Idle ==
    [pc |-> "idle", op |-> "none", key |-> <<>>, ix |-> 0, fn |-> SetFn(<<<<>>, 0>>),
     val |-> <<<<>>, 0>>, err |-> Ok, saved |-> None, ret |-> None]

(***************************************************************************)
(* The state after BucketMap::new and the calls on the map.                *)
(***************************************************************************)
\* new asserting only that max_buckets is not 0
new_panics_zero_only(n) == n = 0

\* the asserts of BucketMap::new: assert_ne!(config.max_buckets, 0) and
\* assert!(config.max_buckets.is_power_of_two())
new_panics(n) == n = 0 \/ ~is_power_of_two(n)

\* the fields BucketMap::new gives the map for config.max_buckets = n and
\* config.max_search = ms
new_map(n, ms) ==
    [buckets |-> [ix \in 0..(n - 1) |-> None],
     max_search |-> IF ms.some THEN ms.val ELSE MAX_SEARCH,
     max_buckets_pow2 |-> log2(n)]

\* BucketMap::new(config), config.max_buckets = n: the asserts are the guard
new(n, ms) ==
    /\ ~new_panics(n)
    /\ buckets = new_map(n, ms).buckets
    /\ max_search = new_map(n, ms).max_search
    /\ max_buckets_pow2 = new_map(n, ms).max_buckets_pow2

(***************************************************************************)
(* The directories and the files of the shards.  A file is the Mapped      *)
(* Region of one storage of one shard: its index (class -1) or a data      *)
(* class, at one capacity.                                                 *)
(***************************************************************************)
\* TempDir::new(): the private directory
TempPath == "tmp"

Dirs == {"d1", "d2", TempPath}

RegionFile(ix, class, pow) == [ix |-> ix, class |-> class, pow |-> pow]

\* a file an earlier program left in a directory
StaleFile == [ix |-> 0, class |-> -2, pow |-> 0]

\* the Mapped Regions of the shards of bs (section 3: one per index, one per
\* data class)
RegionsOf(bs) ==
    UNION {{RegionFile(ix, -1, bs[ix].val.index.pow)}
           \cup {RegionFile(ix, c - 1, bs[ix].val.data[c].pow) :
                     c \in DOMAIN bs[ix].val.data}
           : ix \in {i \in DOMAIN bs : bs[i].some}}

\* section 4.1: a new region is a fresh file on one of the drives, a grown
\* region replaces its file and the old one is unlinked
Files ==
    LET old == RegionsOf(buckets)
        now == RegionsOf(buckets')
    IN  IF old = now THEN disk' = disk
        ELSE \E d \in {drives[i] : i \in DOMAIN drives} :
                 disk' = [x \in Dirs |->
                             (disk[x] \ (old \ now))
                             \cup (IF x = d THEN now \ old ELSE {})]

\* fn erase_previous_drives(drives): remove_dir_all and create_dir_all
erase_previous_drives(dk, ds) ==
    [x \in Dirs |-> IF x \in {ds[i] : i \in DOMAIN ds} THEN {} ELSE dk[x]]

\* BucketMap::new, the drives: config.drives are erased and used, or a
\* TempDir is made; before is the disk the map is built on
new_drives(config_drives, before) ==
    [drives |-> IF config_drives.some THEN config_drives.val ELSE <<TempPath>>,
     temp_dir |-> IF config_drives.some THEN None ELSE Some(TempPath),
     disk |-> IF config_drives.some THEN erase_previous_drives(before, config_drives.val)
              ELSE before]

\* a map built for one of the workloads ws, and the empty reference dictionary
InitWith(ws, config_drives, before) ==
    /\ \E c \in ws :
           /\ new(c.max_buckets, c.max_search)
           /\ all_keys = c.keys
           /\ all_values = c.values
    /\ hash_map = [k \in all_keys |-> None]
    /\ result = None
    /\ probe = None
    /\ locks = [ix \in DOMAIN buckets |-> {}]
    /\ threads = [t \in Threads |-> Idle]
    /\ \E cd \in config_drives :
           /\ drives = new_drives(cd, before).drives
           /\ temp_dir = new_drives(cd, before).temp_dir
           /\ disk = new_drives(cd, before).disk
    /\ dropped = FALSE

\* a map of a BucketMapConfig without drives, built on empty directories
InitOf(ws) == InitWith(ws, {None}, [d \in Dirs |-> {}])

Init == InitOf(Workloads)

Frame ==
    /\ UNCHANGED <<max_buckets_pow2, max_search, all_keys, all_values, probe, locks,
                   threads, drives, temp_dir, dropped>>
    /\ Files

Call_insert(ix, key, value) ==
    /\ buckets' \in insert(buckets, ix, key, value)
    /\ hash_map' = [hash_map EXCEPT ![key] = Some(value)]
    /\ result' = None
    /\ Frame

Call_try_insert(ix, key, value) ==
    /\ \E o \in try_insert(buckets, ix, key, value) :
           /\ buckets' = o.buckets
           /\ hash_map' = IF o.result = Ok THEN [hash_map EXCEPT ![key] = Some(value)]
                          ELSE hash_map
           /\ result' = IF o.result = Ok THEN None ELSE Some(o.result)
    /\ Frame

\* index.grow(ix, result.unwrap_err())
Call_grow(ix) ==
    /\ result.some
    /\ LET g == grow(buckets, ix, result.val)
       IN  g.ok /\ buckets' = g.buckets
    /\ UNCHANGED <<hash_map, result>>
    /\ Frame

Call_update(key, f) ==
    LET current == read_value(buckets, key)
    IN  /\ f.kind = "rc" => current.some
        /\ buckets' \in update(buckets, key, f)
        /\ hash_map' = [hash_map EXCEPT ![key] = ApplyFn(f, current)]
        /\ result' = None
        /\ Frame

Call_delete_key(key) ==
    /\ buckets' = delete_key(buckets, key)
    /\ hash_map' = [hash_map EXCEPT ![key] = None]
    /\ result' = None
    /\ Frame

\* the reference dictionary's entry after add/unref (hashmap_compare never
\* decrements a count of 0)
RefAfter(entry, d) ==
    IF ~entry.some THEN None
    ELSE IF entry.val[2] + d < 0 THEN entry
    ELSE Some(<<entry.val[1], entry.val[2] + d>>)

Call_addref(key) ==
    LET r == addref(buckets, key)
    IN  /\ r.ret.some => r.ret.val <= MaxRef
        /\ hash_map[key].some => hash_map[key].val[2] < MaxRef
        /\ buckets' = r.buckets
        /\ hash_map' = [hash_map EXCEPT ![key] = RefAfter(hash_map[key], 1)]
        /\ result' = None
        /\ Frame

Call_unref(key) ==
    /\ buckets' = unref(buckets, key).buckets
    /\ hash_map' = [hash_map EXCEPT ![key] = RefAfter(hash_map[key], -1)]
    /\ result' = None
    /\ Frame

Next ==
    \/ \E k \in all_keys, w \in all_values : Call_insert(bucket_ix(k), k, w)
    \/ \E k \in all_keys, w \in all_values : Call_try_insert(bucket_ix(k), k, w)
    \/ \E ix \in DOMAIN buckets : Call_grow(ix)
    \/ \E k \in all_keys, f \in UpdateFns : Call_update(k, f)
    \/ \E k \in all_keys : Call_delete_key(k)
    \/ \E k \in all_keys : Call_addref(k)
    \/ \E k \in all_keys : Call_unref(k)

Spec == Init /\ [][Next]_vars

\* the keys of the reference dictionary
Present == {k \in DOMAIN hash_map : hash_map[k].some}

(***************************************************************************)
(* bucket_ix on maps of 2^0 .. 2^MaxIxPow shards, for keys that differ in   *)
(* the first two and the last of the 8 bytes read and in a byte after       *)
(* them, on the empty map and on a map holding one key.                     *)
(***************************************************************************)
IxKeys ==
    {<<b0, b1, 0, 0, 0, 0, 0, b7, rest>> :
        b0 \in {0, 1, 128, 255}, b1 \in {0, 128}, b7 \in {0, 255}, rest \in {1, 2}}

IxWorkloads ==
    {Workload(2 ^ p, None, IxKeys, {<<<<1>>, 0>>}) : p \in 0..MaxIxPow}

InitIx == InitOf(IxWorkloads)

\* let ix = index.bucket_ix(&key)
Call_bucket_ix(key) ==
    /\ probe' = Some([key |-> key, ix |-> bucket_ix(key)])
    /\ UNCHANGED <<buckets, max_buckets_pow2, max_search, hash_map, all_keys,
                   all_values, result, locks, threads, drives, temp_dir, disk, dropped>>

NextIx ==
    \/ \E k \in all_keys : Call_bucket_ix(k)
    \/ \E k \in all_keys, w \in all_values :
           Present = {} /\ Call_insert(bucket_ix(k), k, w)

SpecIx == InitIx /\ [][NextIx]_vars

(***************************************************************************)
(* The calls of a map of two shards with the ix of insert, try_insert and  *)
(* grow chosen by the caller: the router does not compare it to            *)
(* bucket_ix(key).                                                         *)
(***************************************************************************)
AnyIxWorkloads == {Workload(2, None, {K1, K3}, {<<<<1>>, MaxRef>>})}

InitAnyIx == InitOf(AnyIxWorkloads)

NextAnyIx ==
    \/ \E ix \in DOMAIN buckets, k \in all_keys, w \in all_values : Call_insert(ix, k, w)
    \/ \E ix \in DOMAIN buckets, k \in all_keys, w \in all_values :
           Call_try_insert(ix, k, w)
    \/ \E ix \in DOMAIN buckets : Call_grow(ix)
    \/ \E k \in all_keys, f \in UpdateFns : Call_update(k, f)
    \/ \E k \in all_keys : Call_delete_key(k)
    \/ \E k \in all_keys : Call_addref(k)
    \/ \E k \in all_keys : Call_unref(k)

SpecAnyIx == InitAnyIx /\ [][NextAnyIx]_vars

(***************************************************************************)
(* Maps built on a private directory and on drives of the caller, written, *)
(* dropped and built again.  The first map finds a file of an earlier      *)
(* program in d1.                                                          *)
(***************************************************************************)
DropWorkloads == {Workload(2, None, {K1, K3}, {<<<<1>>, 0>>, <<<<1, 2>>, 0>>})}

DropDrives == {None, Some(<<"d1">>), Some(<<"d1", "d2">>)}

StaleDisk == [d \in Dirs |-> IF d = "d1" THEN {StaleFile} ELSE {}]

InitDrop == InitWith(DropWorkloads, DropDrives, StaleDisk)

\* impl Drop for BucketMap: erase_previous_drives when temp_dir is None; then
\* the fields are dropped, and a TempDir removes its directory
Call_drop ==
    /\ ~dropped
    /\ dropped' = TRUE
    /\ disk' = IF temp_dir.some THEN [disk EXCEPT ![temp_dir.val] = {}]
               ELSE erase_previous_drives(disk, drives)
    /\ UNCHANGED <<buckets, max_buckets_pow2, max_search, hash_map, all_keys, all_values,
                   result, probe, locks, threads, drives, temp_dir>>

\* BucketMap::new(config) for the next map, config = (n, ms, config_drives):
\* a failed assert leaves no map; probe is the config and whether new panicked
Call_new(n, ms, config_drives) ==
    /\ dropped
    /\ probe' = Some([max_buckets |-> n, max_search |-> ms, panicked |-> new_panics(n)])
    /\ IF new_panics(n)
       THEN UNCHANGED <<buckets, max_buckets_pow2, max_search, hash_map, result, locks,
                        drives, temp_dir, disk, dropped>>
       ELSE /\ dropped' = FALSE
            /\ buckets' = new_map(n, ms).buckets
            /\ max_search' = new_map(n, ms).max_search
            /\ max_buckets_pow2' = new_map(n, ms).max_buckets_pow2
            /\ locks' = [ix \in DOMAIN new_map(n, ms).buckets |-> {}]
            /\ hash_map' = [k \in all_keys |-> None]
            /\ result' = None
            /\ drives' = new_drives(config_drives, disk).drives
            /\ temp_dir' = new_drives(config_drives, disk).temp_dir
            /\ disk' = new_drives(config_drives, disk).disk
    /\ UNCHANGED <<all_keys, all_values, threads>>

NextDrop ==
    \/ \E k \in all_keys, w \in all_values : ~dropped /\ Call_insert(bucket_ix(k), k, w)
    \/ \E k \in all_keys : ~dropped /\ Call_delete_key(k)
    \/ Call_drop
    \/ \E cd \in DropDrives : Call_new(2, None, cd)

SpecDrop == InitDrop /\ [][NextDrop]_vars

(***************************************************************************)
(* BucketMap::new on every max_buckets of 0..MaxNewBuckets, with and       *)
(* without a max_search: maps are built, written, dropped and built again. *)
(***************************************************************************)
NewMaxSearch == {None, Some(1)}

NewWorkloads ==
    {Workload(n, ms, {K1, K3}, {<<<<1>>, 0>>}) : n \in 0..MaxNewBuckets, ms \in NewMaxSearch}

InitNew == InitOf(NewWorkloads)

NextNew ==
    \/ \E k \in all_keys, w \in all_values : ~dropped /\ Call_insert(bucket_ix(k), k, w)
    \/ Call_drop
    \/ \E n \in 0..MaxNewBuckets, ms \in NewMaxSearch : Call_new(n, ms, None)

SpecNew == InitNew /\ [][NextNew]_vars

(***************************************************************************)
(* Threads calling into one map at once.  Each function of the router is   *)
(* cut at its lock call, at get_bucket, at the calls into the shard and at *)
(* its return, where the guard is dropped.  The shard's try_write is cut   *)
(* once more: it stores the ref count of an Occupied slot before the rest, *)
(* so the shard passes through a state no call returns.                    *)
(***************************************************************************)
Readers == {"bucket_len", "items_in_range", "keys", "read_value"}

Mutators == {"delete_key", "insert", "try_insert", "grow", "update", "addref", "unref"}

\* update taking self.buckets[ix].read(), the others as they are
lock_mode_update_read(op) == IF op \in Readers \/ op = "update" THEN "read" ELSE "write"

\* every function taking self.buckets[ix].read()
lock_mode_all_read(op) == "read"

\* self.buckets[ix].read() in bucket_len, items_in_range, keys and read_value,
\* self.buckets[ix].write() in the others
lock_mode(op) == IF op \in Readers THEN "read" ELSE "write"

\* every function taking the guard through get_bucket
uses_get_bucket_all(op) == TRUE

\* the functions that take the guard through get_bucket
uses_get_bucket(op) == op \in {"insert", "try_insert", "grow", "update"}

Guard(t, mode) == [thread |-> t, mode |-> mode]

\* RwLock::read returns while no write guard is out, RwLock::write while no
\* guard is out
RwLock_grants(gs, mode) ==
    IF mode = "read" THEN \A g \in gs : g.mode = "read" ELSE gs = {}

ThreadFrame ==
    /\ UNCHANGED <<max_buckets_pow2, max_search, all_keys, all_values, probe, drives,
                   temp_dir, dropped>>
    /\ Files

\* thread t calls op
Invoke(t, op, key, ix, fn, val, err) ==
    /\ threads[t].pc = "idle"
    /\ threads' = [threads EXCEPT ![t] =
                      [Idle EXCEPT !.pc = "lock", !.op = op, !.key = key, !.ix = ix,
                                   !.fn = fn, !.val = val, !.err = err]]
    /\ UNCHANGED <<buckets, hash_map, result, locks>>
    /\ ThreadFrame

\* self.buckets[ix].read().unwrap() / self.buckets[ix].write().unwrap()
Acquire(t) ==
    LET th == threads[t]
    IN  /\ th.pc = "lock"
        /\ RwLock_grants(locks[th.ix], lock_mode(th.op))
        /\ locks' = [locks EXCEPT ![th.ix] = @ \cup {Guard(t, lock_mode(th.op))}]
        /\ threads' = [threads EXCEPT ![t].pc = "locked"]
        /\ UNCHANGED <<buckets, hash_map, result>>
        /\ ThreadFrame

\* get_bucket after its lock call: if bucket.is_none() { *bucket = Some(Bucket::new(..)) }
GetBucket(t) ==
    LET th == threads[t]
    IN  /\ th.pc = "locked"
        /\ uses_get_bucket(th.op)
        /\ buckets' = [buckets EXCEPT ![th.ix] = Some(get_bucket(buckets, th.ix))]
        /\ threads' = [threads EXCEPT ![t].pc = IF th.op = "update" THEN "current"
                                                ELSE "body"]
        /\ UNCHANGED <<hash_map, result, locks>>
        /\ ThreadFrame

\* what a reader returns
ReadOf(bs, th) ==
    IF th.op = "read_value" THEN read_value(bs, th.key)
    ELSE IF th.op = "keys" THEN keys(bs, th.ix)
    ELSE IF th.op = "items_in_range" THEN items_in_range(bs, th.ix)
    ELSE bucket_len(bs, th.ix)

\* a reader that reads the shard without calling .read() on its lock
Read_without_guard(t) ==
    LET th == threads[t]
    IN  /\ th.pc = "lock"
        /\ th.op \in Readers
        /\ threads' = [threads EXCEPT ![t].pc = "unlock",
                                      ![t].ret = Some(ReadOf(buckets, th))]
        /\ UNCHANGED <<buckets, hash_map, result, locks>>
        /\ ThreadFrame

\* the body of bucket_len, items_in_range, keys and read_value under the guard
Read(t) ==
    LET th == threads[t]
    IN  /\ th.pc = "locked"
        /\ ~uses_get_bucket(th.op)
        /\ th.op \in Readers
        /\ threads' = [threads EXCEPT ![t].pc = "unlock",
                                      ![t].ret = Some(ReadOf(buckets, th))]
        /\ UNCHANGED <<buckets, hash_map, result, locks>>
        /\ ThreadFrame

\* the body of delete_key, addref and unref under the guard
Mutate(t) ==
    LET th == threads[t]
        r == IF th.op = "addref" THEN addref(buckets, th.key)
             ELSE IF th.op = "unref" THEN unref(buckets, th.key)
             ELSE [buckets |-> delete_key(buckets, th.key), ret |-> None]
    IN  /\ th.pc = "locked"
        /\ ~uses_get_bucket(th.op)
        /\ th.op \in {"delete_key", "addref", "unref"}
        /\ buckets' = r.buckets
        /\ threads' = [threads EXCEPT ![t].pc = "unlock", ![t].ret = Some(r.ret)]
        /\ UNCHANGED <<hash_map, result, locks>>
        /\ ThreadFrame

\* Bucket::update: read current and call updatefn; None deletes, Some goes on
\* to the write
CallFn(t) ==
    LET th == threads[t]
        b == buckets[th.ix].val
        updated == ApplyFn(th.fn, Bucket_read_value(b, th.key))
    IN  /\ th.pc = "current"
        /\ IF updated.some
           THEN /\ threads' = [threads EXCEPT ![t].pc = "body", ![t].val = updated.val]
                /\ UNCHANGED buckets
           ELSE /\ threads' = [threads EXCEPT ![t].pc = "unlock"]
                /\ buckets' = [buckets EXCEPT ![th.ix] = Some(Bucket_delete_key(b, th.key))]
        /\ UNCHANGED <<hash_map, result, locks>>
        /\ ThreadFrame

\* try_write, first part: the ref count of the key's slot is stored
WriteBegin(t) ==
    LET th == threads[t]
        b == buckets[th.ix].val
        s == Index_find(b.index, th.key, b.max_search)
    IN  /\ th.pc = "body"
        /\ th.op \in {"insert", "try_insert", "update"}
        /\ buckets' = IF s = NoSlot THEN buckets
                      ELSE [buckets EXCEPT
                               ![th.ix].val.index.slots[s + 1].ref_count = th.val[2]]
        /\ threads' = [threads EXCEPT ![t].pc = "write", ![t].saved = Some(b)]
        /\ UNCHANGED <<hash_map, result, locks>>
        /\ ThreadFrame

\* try_write, the rest: Ok with the write applied, or an error with the shard
\* as try_write found it; try_insert returns either, insert and update grow
WriteEnd(t) ==
    LET th == threads[t]
        b == th.saved.val
    IN  /\ th.pc = "write"
        /\ \E cursor \in Data_cursors(b.data, Length(th.val[1])) :
              LET o == Bucket_try_write(b, th.key, th.val[1], th.val[2], cursor)
              IN  /\ buckets' = [buckets EXCEPT ![th.ix] = Some(o.bucket)]
                  /\ threads' = [threads EXCEPT
                                    ![t].pc = IF o.result = Ok \/ th.op = "try_insert"
                                              THEN "unlock" ELSE "grow",
                                    ![t].err = o.result,
                                    ![t].saved = None]
        /\ UNCHANGED <<hash_map, result, locks>>
        /\ ThreadFrame

\* the grow of the loop of Bucket::insert, then try_write again
GrowStep(t) ==
    LET th == threads[t]
        g == Bucket_grow(buckets[th.ix].val, th.err)
    IN  /\ th.pc = "grow"
        /\ g.ok
        /\ buckets' = [buckets EXCEPT ![th.ix] = Some(g.bucket)]
        /\ threads' = [threads EXCEPT ![t].pc = "body", ![t].err = Ok]
        /\ UNCHANGED <<hash_map, result, locks>>
        /\ ThreadFrame

\* the body of grow(ix, err) under the guard
GrowCall(t) ==
    LET th == threads[t]
        g == Bucket_grow(buckets[th.ix].val, th.err)
    IN  /\ th.pc = "body"
        /\ th.op = "grow"
        /\ g.ok
        /\ buckets' = [buckets EXCEPT ![th.ix] = Some(g.bucket)]
        /\ threads' = [threads EXCEPT ![t].pc = "unlock"]
        /\ UNCHANGED <<hash_map, result, locks>>
        /\ ThreadFrame

\* the reference dictionary after the call of th
HashMapAfter(th) ==
    IF th.op = "insert" \/ (th.op = "try_insert" /\ th.err = Ok)
    THEN [hash_map EXCEPT ![th.key] = Some(th.val)]
    ELSE IF th.op = "update"
    THEN [hash_map EXCEPT ![th.key] = ApplyFn(th.fn, hash_map[th.key])]
    ELSE IF th.op = "delete_key" THEN [hash_map EXCEPT ![th.key] = None]
    ELSE IF th.op = "addref" THEN [hash_map EXCEPT ![th.key] = RefAfter(hash_map[th.key], 1)]
    ELSE IF th.op = "unref" THEN [hash_map EXCEPT ![th.key] = RefAfter(hash_map[th.key], -1)]
    ELSE hash_map

\* a return that leaves the guard of the call on the lock
Release_keeps_guard(t) ==
    LET th == threads[t]
    IN  /\ th.pc = "unlock"
        /\ hash_map' = HashMapAfter(th)
        /\ result' = IF th.op = "try_insert" /\ th.err # Ok THEN Some(th.err) ELSE result
        /\ threads' = [threads EXCEPT ![t] = Idle]
        /\ UNCHANGED <<buckets, locks>>
        /\ ThreadFrame

\* the function returns and its guard is dropped; the caller applies the call
\* to the reference dictionary and keeps the error of a try_insert
Release(t) ==
    LET th == threads[t]
    IN  /\ th.pc = "unlock"
        /\ locks' = [locks EXCEPT ![th.ix] = {g \in @ : g.thread # t}]
        /\ hash_map' = HashMapAfter(th)
        /\ result' = IF th.op = "try_insert" /\ th.err # Ok THEN Some(th.err) ELSE result
        /\ threads' = [threads EXCEPT ![t] = Idle]
        /\ UNCHANGED buckets
        /\ ThreadFrame

ThreadsWorkloads ==
    {Workload(1, None, {K1}, {<<<<1>>, 0>>, <<<<2>>, 1>>}),
     Workload(2, None, {K1}, {<<<<1>>, 0>>})}

InitThreads == InitOf(ThreadsWorkloads)

\* a count the callers still add to
RefBelow(key) == hash_map[key].some => hash_map[key].val[2] < MaxRef

NextThreads ==
    \/ \E t \in Threads, k \in all_keys :
           Invoke(t, "read_value", k, bucket_ix(k), NoneFn, <<<<>>, 0>>, Ok)
    \/ \E t \in Threads, ix \in DOMAIN buckets, op \in {"bucket_len", "items_in_range", "keys"} :
           Invoke(t, op, <<>>, ix, NoneFn, <<<<>>, 0>>, Ok)
    \/ \E t \in Threads, k \in all_keys, w \in all_values, op \in {"insert", "try_insert"} :
           Invoke(t, op, k, bucket_ix(k), SetFn(w), w, Ok)
    \/ \E t \in Threads, ix \in DOMAIN buckets :
           result.some /\ Invoke(t, "grow", <<>>, ix, NoneFn, <<<<>>, 0>>, result.val)
    \/ \E t \in Threads, k \in all_keys, f \in {IncFn, NoneFn} :
           /\ f = IncFn => RefBelow(k)
           /\ Invoke(t, "update", k, bucket_ix(k), f, <<<<>>, 0>>, Ok)
    \/ \E t \in Threads, k \in all_keys, op \in {"delete_key", "addref", "unref"} :
           /\ op = "addref" => RefBelow(k)
           /\ Invoke(t, op, k, bucket_ix(k), NoneFn, <<<<>>, 0>>, Ok)
    \/ \E t \in Threads : Acquire(t)
    \/ \E t \in Threads : GetBucket(t)
    \/ \E t \in Threads : Read(t)
    \/ \E t \in Threads : Mutate(t)
    \/ \E t \in Threads : CallFn(t)
    \/ \E t \in Threads : WriteBegin(t)
    \/ \E t \in Threads : WriteEnd(t)
    \/ \E t \in Threads : GrowStep(t)
    \/ \E t \in Threads : GrowCall(t)
    \/ \E t \in Threads : Release(t)

SpecThreads == InitThreads /\ [][NextThreads]_vars

(***************************************************************************)
(* Section 3, I1-I3, on every shard: a key occupies one slot; an Occupied  *)
(* slot with elements references a block, and a referenced block is Used   *)
(* and of the class of the slot's length;                                  *)
(* no block is referenced twice, and every Used block is referenced.       *)
(***************************************************************************)
Bucket_inv(b) ==
    LET occ == {i \in DOMAIN b.index.slots : b.index.slots[i].occ}
        refs == {i \in occ : b.index.slots[i].loc.has}
        used == {cb \in UNION {{<<c, blk>> : blk \in 1..(2 ^ b.data[c].pow)}
                                : c \in DOMAIN b.data} :
                    b.data[cb[1]].blocks[cb[2]].used}
    IN  /\ \A i, j \in occ : b.index.slots[i].key = b.index.slots[j].key => i = j
        /\ \A i \in occ : LET e == b.index.slots[i]
                           IN  /\ e.len > 0 => e.loc.has
                               /\ Index_find(b.index, e.key, b.max_search) = i - 1
        /\ \A i \in refs : LET e == b.index.slots[i]
                            IN  /\ e.loc.class = Data_class(e.len)
                                /\ <<e.loc.class + 1, e.loc.block + 1>> \in used
        /\ \A i, j \in refs : b.index.slots[i].loc = b.index.slots[j].loc => i = j
        /\ \A cb \in used : \E i \in refs :
               b.index.slots[i].loc = Loc(cb[1] - 1, cb[2] - 1)

ShardInv == \A ix \in DOMAIN buckets : buckets[ix].some => Bucket_inv(buckets[ix].val)

(***************************************************************************)
(* Properties.  The operators of the router take the shard vector, so a    *)
(* property of a call is stated on the outcomes of the call applied to     *)
(* every reachable state.                                                  *)
(***************************************************************************)
\* the shard vectors a write of value to key can leave: insert with
\* ix = bucket_ix(key), and update with a transformer returning Some(value)
Written(bs, key, value) ==
    insert(bs, bucket_ix(key), key, value) \cup update(bs, key, SetFn(value))

\* the item of the reference dictionary's entry (value, ref count) of key
Item(key, value) == [pubkey |-> key, ref_count |-> value[2], slot_list |-> value[1]]

\* items_in_range of the shards ix.., concatenated
RECURSIVE ItemsFrom(_, _)
ItemsFrom(bs, ix) ==
    IF ix >= num_buckets(bs) THEN <<>>
    ELSE items_in_range(bs, ix) \o ItemsFrom(bs, ix + 1)

\* the items of key among the items of all shards
ItemsOf(bs, key) ==
    LET all == ItemsFrom(bs, 0)
    IN  {i \in DOMAIN all : all[i].pubkey = key}

\* C1: once insert(bucket_ix(k), k, (v, r)) or update(k, f) with f returning
\* Some((v, r)) has returned, read_value(k) returns Some((v, r)); this holds in
\* every state, the one where the shard of k has not been created included.
RoundTrip ==
    \A k \in all_keys, w \in all_values :
        \A bs \in Written(buckets, k, w) : read_value(bs, k) = Some(w)

\* a state after the first write of the map, to a shard created by that write
RoundTripWitness ==
    \E k \in all_keys :
        /\ Present = {k}
        /\ hash_map[k] = Some(<<<<1, 2>>, MaxRef>>)
        /\ read_value(buckets, k) = hash_map[k]
        /\ \A ix \in DOMAIN buckets : buckets[ix].some <=> ix = bucket_ix(k)

\* C2: a write of (v2, r2) to a key that holds (v1, r1) makes read_value return
\* exactly Some((v2, r2)), whatever the lengths of v1 and v2, and the items of
\* the map hold the key once, with (v2, r2).
Overwrite ==
    \A k \in all_keys : read_value(buckets, k).some =>
        \A w \in all_values : \A bs \in Written(buckets, k, w) :
            /\ read_value(bs, k) = Some(w)
            /\ \E i \in DOMAIN ItemsFrom(bs, 0) :
                   /\ ItemsOf(bs, k) = {i}
                   /\ ItemsFrom(bs, 0)[i] = Item(k, w)

\* a key holding a list of two elements is overwritten by a list of one
\* element and by the empty list, and a key holding one element by two
OverwriteWitness ==
    \E k, k2 \in all_keys :
        /\ read_value(buckets, k) = Some(<<<<1, 2>>, MaxRef>>)
        /\ \E bs \in Written(buckets, k, <<<<2>>, 0>>) : read_value(bs, k) = Some(<<<<2>>, 0>>)
        /\ \E bs \in Written(buckets, k, <<<<>>, 0>>) : read_value(bs, k) = Some(<<<<>>, 0>>)
        /\ read_value(buckets, k2) = Some(<<<<2>>, 0>>)
        /\ \E bs \in Written(buckets, k2, <<<<1, 2>>, MaxRef>>) :
               read_value(bs, k2) = Some(<<<<1, 2>>, MaxRef>>)

\* C3: read_value(k) is None while k was never written or was deleted since
\* its last write, and right after delete_key(k); a write of k that follows
\* the delete of a present k returns and is read back.
NoPhantom ==
    \A k \in all_keys :
        /\ ~hash_map[k].some => read_value(buckets, k) = None
        /\ read_value(delete_key(buckets, k), k) = None
        /\ read_value(buckets, k).some =>
               \A w \in all_values :
                   /\ insert(delete_key(buckets, k), bucket_ix(k), k, w) # {}
                   /\ \A bs \in Written(delete_key(buckets, k), k, w) :
                          read_value(bs, k) = Some(w)

\* a key that was written and deleted reads None beside a key that is present
NoPhantomWitness ==
    \E k, k2 \in all_keys :
        /\ ~hash_map[k].some
        /\ hash_map[k2].some
        /\ buckets[bucket_ix(k)].some
        /\ read_value(buckets, k) = None
        /\ read_value(buckets, k2).some
        /\ read_value(delete_key(buckets, k2), k2) = None

\* C4: after any sequence of insert, update, delete_key, addref and unref
\* applied to the map and to the reference dictionary, the items of
\* items_in_range over all shards are exactly the dictionary's entries, each
\* once (maps of one and of two shards).
MatchesHashMap ==
    LET all == ItemsFrom(buckets, 0)
    IN  /\ {all[i] : i \in DOMAIN all} = {Item(k, hash_map[k].val) : k \in Present}
        /\ Length(all) = Cardinality(Present)

\* a map of two shards holding one key in each, with lists of different lengths
MatchesHashMapWitness ==
    /\ num_buckets(buckets) = 2
    /\ Cardinality(Present) = 2
    /\ Length(items_in_range(buckets, 0)) = 1
    /\ Length(items_in_range(buckets, 1)) = 1
    /\ \E k \in Present : Length(hash_map[k].val[1]) = 2
    /\ \E k \in Present : Length(hash_map[k].val[1]) = 0

\* C8: for distinct keys k and k2, an insert or update of k, whatever index
\* or data grows it runs in the shard, and a delete of k (delete_key, or update
\* with a transformer returning None) leave read_value(k2) as it was.
OtherKeysUntouched ==
    \A k, k2 \in all_keys : k # k2 =>
        /\ \A w \in all_values : \A bs \in Written(buckets, k, w) :
               read_value(bs, k2) = read_value(buckets, k2)
        /\ read_value(delete_key(buckets, k), k2) = read_value(buckets, k2)
        /\ \A bs \in update(buckets, k, [kind |-> "none", val |-> <<<<>>, 0>>]) :
               read_value(bs, k2) = read_value(buckets, k2)

\* an insert of k that grows the index and a data class of the shard it shares
\* with a present key k2
OtherKeysUntouchedWitness ==
    \E k, k2 \in all_keys, w \in all_values :
        LET ix == bucket_ix(k)
        IN  /\ k # k2
            /\ bucket_ix(k2) = ix
            /\ read_value(buckets, k2).some
            /\ ~read_value(buckets, k).some
            /\ \E bs \in insert(buckets, ix, k, w) :
                   /\ bs[ix].val.index.pow > buckets[ix].val.index.pow
                   /\ bs[ix].val.data[1].pow > buckets[ix].val.data[1].pow
                   /\ read_value(bs, k) = Some(w)
                   /\ read_value(bs, k2) = read_value(buckets, k2)

\* C10: for a present key with list v and ref count c, addref sets the count
\* to c + 1 and returns Some(c + 1); unref with c > 0 sets it to c - 1 and
\* returns Some(c - 1); unref with c = 0 leaves 0 and returns Some(0); the list
\* stays v.
RefCountArithmetic ==
    \A k \in all_keys :
        LET cur == read_value(buckets, k)
            v == cur.val[1]
            c == cur.val[2]
            a == addref(buckets, k)
            u == unref(buckets, k)
        IN  cur.some =>
                /\ a.ret = Some(c + 1)
                /\ read_value(a.buckets, k) = Some(<<v, c + 1>>)
                /\ c > 0 => /\ u.ret = Some(c - 1)
                            /\ read_value(u.buckets, k) = Some(<<v, c - 1>>)
                /\ c = 0 => /\ u.ret = Some(0)
                            /\ read_value(u.buckets, k) = Some(<<v, 0>>)

\* a key at count MaxRef, on which unref returns Some(MaxRef - 1), beside a
\* key at count 0, on which unref returns Some(0) and addref Some(1)
RefCountArithmeticWitness ==
    \E k, k2 \in all_keys :
        /\ hash_map[k] = Some(<<<<2>>, MaxRef>>)
        /\ read_value(buckets, k) = Some(<<<<2>>, MaxRef>>)
        /\ unref(buckets, k).ret = Some(MaxRef - 1)
        /\ read_value(buckets, k2) = Some(<<<<>>, 0>>)
        /\ unref(buckets, k2).ret = Some(0)
        /\ addref(buckets, k2).ret = Some(1)

\* The probe window of key is taken: key is absent from its shard and
\* max_search keys with the first 8 bytes of key are present.  Index_home
\* reads those bytes only, so these keys share the home slot of key at every
\* index size and an index grow leaves the window full.
WindowTaken(bs, key) ==
    LET b == get_bucket(bs, bucket_ix(key))
        same == {i \in 1..(2 ^ b.index.pow) :
                    /\ b.index.slots[i].occ
                    /\ b.index.slots[i].key # key
                    /\ read_be_u64(b.index.slots[i].key) = read_be_u64(key)}
    IN  /\ ~Bucket_read_value(b, key).some
        /\ Cardinality(same) >= b.max_search

\* the caller's loop of bucket_map_test_insert2: try_insert, and on an error
\* grow with it and try again; the shard vectors it can end with
RECURSIVE Retry(_, _, _, _)
Retry(bs, ix, key, value) ==
    UNION {IF o.result = Ok THEN {o.buckets}
           ELSE LET g == grow(o.buckets, ix, o.result)
                IN  IF g.ok THEN Retry(g.buckets, ix, key, value) ELSE {}
           : o \in try_insert(bs, ix, key, value)}

\* what a try_insert returning an error leaves, and what follows it; Always
\* is FALSE where the retries are claimed only for a window that is not taken
GrowRestartFor(k, w, always) ==
    LET ix == bucket_ix(k)
    IN  \A cursor \in Data_cursors(get_bucket(buckets, ix).data, Length(w[1])) :
            LET o == try_insert_at(buckets, ix, k, w, cursor)
                g == grow(o.buckets, ix, o.result)
            IN  /\ ~buckets[ix].some => o.result # Ok
                /\ o.result # Ok =>
                       /\ \A j \in DOMAIN buckets :
                              items_in_range(o.buckets, j) = items_in_range(buckets, j)
                       /\ \A k2 \in all_keys :
                              read_value(o.buckets, k2) = read_value(buckets, k2)
                       /\ try_insert_at(o.buckets, ix, k, w, cursor).result = o.result
                       /\ (g.ok /\ (always \/ ~WindowTaken(buckets, k))) =>
                              /\ Retry(g.buckets, ix, k, w) # {}
                              /\ \A bs \in Retry(g.buckets, ix, k, w) :
                                     read_value(bs, k) = Some(w)

InsertReturnsFor(k, w, always) ==
    LET ix == bucket_ix(k)
        b == get_bucket(buckets, ix)
    IN  /\ \A bs \in Written(buckets, k, w) : read_value(bs, k) = Some(w)
        /\ (always \/ ~WindowTaken(buckets, k)) =>
               /\ insert(buckets, ix, k, w) # {}
               /\ update(buckets, k, SetFn(w)) # {}
               /\ (max_search >= 2 ^ MaxIndexPow /\ max_search >= 2 ^ MaxDataPow) =>
                      Bucket_insert_returns(b, k, w[1], w[2])

Holders(bs, key) ==
    {ix \in DOMAIN bs :
        \E i \in DOMAIN items_in_range(bs, ix) : items_in_range(bs, ix)[i].pubkey = key}

\* C6: for every key k, bucket_ix(k) < num_buckets(), and in every state
\* reachable by insert, try_insert and grow with any ix < num_buckets(),
\* update, delete_key, addref and unref, only shard bucket_ix(k) holds k.
ShardPartition ==
    \A k \in all_keys :
        /\ bucket_ix(k) < num_buckets(buckets)
        /\ Holders(buckets, k) \subseteq {bucket_ix(k)}

\* the top p bits of the big-endian number V of the first 8 bytes of key,
\* for p <= 16: V \div 2^(64 - p) is the number of the first two bytes
\* \div 2^(16 - p)
TopBits(key, p) == IF p = 0 THEN 0 ELSE ((key[1] * 256) + key[2]) \div (2 ^ (16 - p))

\* C7: with p = max_buckets_pow2 = log2 of the max_buckets given to new,
\* bucket_ix(key) is the top p bits of the first 8 bytes of key read as a
\* big-endian u64, and 0 when p = 0 (a shift by 64 would leave V); it is the
\* same for keys that differ in other bytes only and in every state of the map.
BucketIxTopBits ==
    /\ num_buckets(buckets) = 2 ^ max_buckets_pow2
    /\ \A k \in all_keys : bucket_ix(k) = TopBits(k, max_buckets_pow2)
    /\ probe.some => probe.val.ix = TopBits(probe.val.key, max_buckets_pow2)

\* bucket_ix of a key starting with the bytes 255, 128 was computed on a map
\* of 512 shards that holds a key, and is 511
BucketIxTopBitsWitness ==
    /\ max_buckets_pow2 = 9
    /\ Present # {}
    /\ probe.some
    /\ probe.val.key[1] = 255 /\ probe.val.key[2] = 128 /\ probe.val.key[8] = 255
    /\ probe.val.ix = 511

\* C11: for a key k that is not present, whether its shard was never written
\* or is initialised without k, addref(k) and unref(k) return None and
\* delete_key(k) returns, and each leaves the whole map as it was: the
\* contents of every shard and which shards are initialised.
AbsentKeyNoOp ==
    \A k \in all_keys :
        read_value(buckets, k) = None =>
            /\ addref(buckets, k) = [buckets |-> buckets, ret |-> None]
            /\ unref(buckets, k) = [buckets |-> buckets, ret |-> None]
            /\ delete_key(buckets, k) = buckets

\* a map of two shards: the shard of k was written and k deleted from it, the
\* shard of k2 was never written
AbsentKeyNoOpWitness ==
    \E k, k2 \in all_keys :
        /\ buckets[bucket_ix(k)].some
        /\ read_value(buckets, k) = None
        /\ ~buckets[bucket_ix(k2)].some
        /\ unref(buckets, k).ret = None
        /\ unref(buckets, k2).ret = None
        /\ addref(buckets, k2).buckets = buckets
        /\ delete_key(buckets, k) = buckets

\* the threads between their lock call and the drop of the guard, on shard ix
InShard(ix) ==
    {t \in Threads : threads[t].ix = ix /\ threads[t].pc \notin {"idle", "lock"}}

\* the guards on shard ix exclude each other: a write guard is the only guard
Exclusive(ix) ==
    \A g1, g2 \in locks[ix] : g1.mode = "write" => g1 = g2

\* C12: every shard has one reader-writer lock; from its lock call to its
\* return bucket_len, items_in_range, keys and read_value hold it shared and
\* insert, try_insert, update, delete_key, addref, unref and grow hold it
\* exclusive, and no thread holds a shard exclusive while another thread holds
\* the same shard.
LockDiscipline ==
    \A ix \in DOMAIN buckets :
        /\ Exclusive(ix)
        /\ \A t \in InShard(ix) :
               /\ threads[t].op \in Readers =>
                      {g \in locks[ix] : g.thread = t} = {Guard(t, "read")}
               /\ threads[t].op \in Mutators =>
                      locks[ix] = {Guard(t, "write")}
        /\ \A g \in locks[ix] : g.thread \in InShard(ix)

\* two threads read one shard at once, under two shared guards
LockDisciplineWitness ==
    \E ix \in DOMAIN buckets :
        /\ buckets[ix].some
        /\ locks[ix] = {Guard(1, "read"), Guard(2, "read")}
        /\ threads[1].pc = "unlock"
        /\ threads[2].pc = "unlock"
        /\ threads[1].op = "read_value"
        /\ threads[2].op = "items_in_range"
        /\ \E t \in Threads : threads[t].ret.val # <<>> /\ threads[t].op = "items_in_range"

\* shard ix is between two write-lock releases: no write guard is out
Quiet(ix) == \A g \in locks[ix] : g.mode = "read"

\* C13: what read_value(k) returns, with writers of k running at the same
\* time, is None or the pair (values, ref_count) stored for k when no writer
\* held the shard, which is the entry of the reference dictionary the
\* completed writes have made: never the values of one write with the ref
\* count of another, never a state inside a grow or a write in progress.
ConsistentSnapshot ==
    /\ \A t \in Threads :
           (threads[t].op = "read_value" /\ threads[t].pc = "unlock") =>
               /\ threads[t].ret = Some(hash_map[threads[t].key])
               /\ Quiet(threads[t].ix)
    /\ \A k \in all_keys :
           Quiet(bucket_ix(k)) => read_value(buckets, k) = hash_map[k]

\* read_value has returned the pair of the second of two writes of a key
\* while another thread, about to write the first pair again, waits for the
\* lock
ConsistentSnapshotWitness ==
    \E t, t2 \in Threads :
        /\ threads[t].op = "read_value"
        /\ threads[t].pc = "unlock"
        /\ threads[t].ret = Some(Some(<<<<2>>, 1>>))
        /\ threads[t2].op \in {"insert", "update", "try_insert"}
        /\ threads[t2].key = threads[t].key
        /\ threads[t2].val = <<<<1>>, 0>>
        /\ threads[t2].pc = "lock"

\* a write in progress: the shard holds the list of the last write with the
\* ref count of the one being made, and a read_value of the key waits
TornWhileLocked ==
    \E t, t2 \in Threads :
        /\ threads[t].op = "read_value"
        /\ threads[t].pc = "lock"
        /\ threads[t2].pc = "write"
        /\ threads[t2].key = threads[t].key
        /\ read_value(buckets, threads[t].key) = Some(<<<<1>>, 1>>)
        /\ hash_map[threads[t].key] = Some(<<<<1>>, 0>>)

\* what a reader returns for a shard that is None
EmptyOf(op) ==
    IF op = "read_value" THEN None
    ELSE IF op = "bucket_len" THEN 0
    ELSE <<>>

\* a reader that has read a shard that is None returned the empty result, and
\* a shard that is None holds no key of the reference dictionary
ReadsOfNone ==
    /\ \A t \in Threads :
           (/\ threads[t].op \in Readers
            /\ threads[t].pc = "unlock"
            /\ ~buckets[threads[t].ix].some) =>
               threads[t].ret = Some(EmptyOf(threads[t].op))
    /\ \A k \in all_keys : ~buckets[bucket_ix(k)].some => ~hash_map[k].some

\* a shard that is None becomes Some only in the get_bucket of a thread in
\* insert, try_insert, grow or update that holds its write guard
InitialisedByWriter ==
    \A ix \in DOMAIN buckets :
        (~buckets[ix].some /\ buckets'[ix].some) =>
            \E t \in Threads :
                /\ threads[t].ix = ix
                /\ threads[t].op \in {"insert", "try_insert", "grow", "update"}
                /\ threads[t].pc = "locked"
                /\ threads'[t].pc # "locked"
                /\ locks[ix] = {Guard(t, "write")}

\* C14: a shard is None until the first insert, try_insert, update or grow on
\* it; on a shard that is None read_value returns None, keys and
\* items_in_range return the empty list and bucket_len returns 0, and the
\* shard stays None, in every interleaving with other calls.
LazyInit == []ReadsOfNone /\ [][InitialisedByWriter]_vars

\* bucket_len has returned 0 for a shard that is None while the other shard
\* holds a key and a grow on the read shard, which will create it, waits for
\* the lock
LazyInitWitness ==
    \E t, t2 \in Threads, ix \in DOMAIN buckets :
        /\ ~buckets[ix].some
        /\ threads[t].op = "bucket_len"
        /\ threads[t].ix = ix
        /\ threads[t].pc = "unlock"
        /\ threads[t].ret = Some(0)
        /\ threads[t2].op = "grow"
        /\ threads[t2].ix = ix
        /\ threads[t2].pc = "lock"
        /\ Present # {}

\* the files of the shards of the map are on its drives, one per region
FilesOnDrives ==
    ~dropped =>
        /\ UNION {disk[drives[i]] : i \in DOMAIN drives} \ {StaleFile} = RegionsOf(buckets)
        /\ ~temp_dir.some => UNION {disk[drives[i]] : i \in DOMAIN drives} = RegionsOf(buckets)

\* what the drop of the code leaves: no file in any directory of the map
DropErases ==
    [][(~dropped /\ dropped') => \A i \in DOMAIN drives : disk'[drives[i]] = {}]_vars

\* C15: when a map built on a private temp directory is dropped its shard
\* files are removed; when a map built on drives of the caller is dropped the
\* files in those directories remain; the next new given those drives wipes
\* them.
DropFileOwnership ==
    [][/\ (~dropped /\ dropped') =>
              IF temp_dir.some THEN disk'[temp_dir.val] = {}
              ELSE disk' = disk
       /\ (dropped /\ ~dropped' /\ ~temp_dir'.some) =>
              \A i \in DOMAIN drives' : disk'[drives'[i]] = {}]_vars

\* C16: a key can be present with an empty list: after a write of ([], rc)
\* to k, read_value(k) is Some(([], rc)), not None; a key the reference
\* dictionary holds with an empty list reads so in every reachable state,
\* whatever writes came before; and from there a write of any list and ref
\* count, empty or not, reads back exactly, until a delete_key, after which
\* it reads None.
EmptyList ==
    \A k \in all_keys :
        /\ (hash_map[k].some /\ hash_map[k].val[1] = <<>>) =>
               read_value(buckets, k) = hash_map[k]
        /\ \A rc \in 0..MaxRef : \A bs \in Written(buckets, k, <<<<>>, rc>>) :
               /\ read_value(bs, k) = Some(<<<<>>, rc>>)
               /\ \A w \in all_values \cup {<<<<>>, r>> : r \in 0..MaxRef} :
                      \A bs2 \in update(bs, k, SetFn(w)) : read_value(bs2, k) = Some(w)
               /\ read_value(delete_key(bs, k), k) = None

\* a key that holds ([], MaxRef) in a slot that still names the data block of
\* the one-element list written before, beside a free block
EmptyListWitness ==
    \E k \in all_keys :
        LET b == buckets[bucket_ix(k)].val
            s == Index_find(b.index, k, b.max_search)
        IN  /\ hash_map[k] = Some(<<<<>>, MaxRef>>)
            /\ read_value(buckets, k) = Some(<<<<>>, MaxRef>>)
            /\ b.index.slots[s + 1].loc.has
            /\ \A w \in all_values : \A bs \in Written(buckets, k, w) :
                   read_value(bs, k) = Some(w)

PowerOfTwo(n) == \E p \in 0..MaxNewBuckets : n = 2 ^ p

\* what new does with each config, and the map the last new has built
NewState ==
    /\ \A n \in 0..MaxNewBuckets, ms \in NewMaxSearch :
           IF PowerOfTwo(n)
           THEN /\ ~new_panics(n)
                /\ DOMAIN new_map(n, ms).buckets = 0..(n - 1)
                /\ num_buckets(new_map(n, ms).buckets) = n
                /\ \A ix \in 0..(n - 1) : new_map(n, ms).buckets[ix] = None
                /\ new_map(n, ms).max_search = (IF ms.some THEN ms.val ELSE 32)
           ELSE new_panics(n)
    /\ ~dropped => PowerOfTwo(num_buckets(buckets))
    /\ probe.some =>
           /\ probe.val.panicked = ~PowerOfTwo(probe.val.max_buckets)
           /\ probe.val.panicked => dropped
           /\ (~probe.val.panicked /\ ~dropped) =>
                  /\ num_buckets(buckets) = probe.val.max_buckets
                  /\ max_search = (IF probe.val.max_search.some
                                   THEN probe.val.max_search.val ELSE 32)

\* a step of new: a panic leaves no map, a success leaves one of
\* max_buckets shards, all None
NewStep ==
    dropped =>
        IF PowerOfTwo(probe'.val.max_buckets)
        THEN /\ ~dropped'
             /\ num_buckets(buckets') = probe'.val.max_buckets
             /\ \A ix \in DOMAIN buckets' : buckets'[ix] = None
        ELSE dropped' /\ buckets' = buckets

\* C18: BucketMap::new panics and produces no map when max_buckets is 0 or
\* not a power of two; for every power of two N >= 1 it returns a map with
\* num_buckets() = N, all N shards None, and max_search the configured value,
\* or 32 when there is none.
NewContract == []NewState /\ [][NewStep]_vars

\* a map of 8 shards with max_search 1, none of them written, built after a
\* new that panicked or a map that was dropped
NewContractWitness ==
    /\ ~dropped
    /\ probe = Some([max_buckets |-> 8, max_search |-> Some(1), panicked |-> FALSE])
    /\ num_buckets(buckets) = 8
    /\ max_search = 1
    /\ \A ix \in DOMAIN buckets : buckets[ix] = None

\* the errors a try_insert can return: BucketMapError::IndexNoSpace(pow) and
\* DataNoSpace((class, pow))
Errors ==
    {IndexNoSpace(p) : p \in 0..MaxIndexPow}
    \cup {DataNoSpace(c, q) : c \in 0..1, q \in 0..MaxDataPow}

\* the storage of shard b that e names was grown since e was produced
Resolved(b, e) ==
    IF e.type = "IndexNoSpace" THEN b.index.pow > e.pow
    ELSE Length(b.data) > e.ix /\ b.data[e.ix + 1].pow > e.pow

\* C19: grow(ix, err) with an err that is resolved - the storage it names
\* was grown since, by a grow with the same error or otherwise - changes no
\* capacity and no content of the shard; so a second grow with the same
\* error changes nothing.
GrowIdempotent ==
    \A ix \in DOMAIN buckets, e \in Errors :
        LET g == grow(buckets, ix, e)
        IN  /\ (buckets[ix].some /\ Resolved(buckets[ix].val, e)) =>
                   g = [ok |-> TRUE, buckets |-> buckets]
            /\ g.ok => grow(g.buckets, ix, e) = [ok |-> TRUE, buckets |-> g.buckets]

\* the caller still holds the IndexNoSpace of a try_insert after the grow
\* with it: the index has grown, the shard holds a key, and a grow with the
\* error again leaves the map as it is
GrowIdempotentWitness ==
    /\ result.some
    /\ result.val.type = "IndexNoSpace"
    /\ \E ix \in DOMAIN buckets :
           /\ buckets[ix].some
           /\ Resolved(buckets[ix].val, result.val)
           /\ bucket_len(buckets, ix) > 0
           /\ grow(buckets, ix, result.val).buckets = buckets

\* C20: update reads the current value, calls the transformer and writes or
\* deletes, with every grow, under one hold of the shard's write guard: from
\* get_bucket to its return no other thread is in the shard; the pair it
\* writes is the transformer's result for the pair the completed calls have
\* left, so that updates of one key by several threads, each adding 1 to the
\* ref count, add up, none lost.
AtomicUpdate ==
    \A t \in Threads :
        LET th == threads[t]
        IN  th.op = "update" =>
                /\ th.pc \in {"locked", "current", "body", "write", "grow", "unlock"} =>
                       /\ locks[th.ix] = {Guard(t, "write")}
                       /\ InShard(th.ix) = {t}
                /\ th.pc \in {"body", "write", "grow"} =>
                       Some(th.val) = ApplyFn(th.fn, hash_map[th.key])
                /\ th.pc = "unlock" =>
                       read_value(buckets, th.key) = ApplyFn(th.fn, hash_map[th.key])

\* two threads in update(k, cur -> cur with ref count + 1) at once: one has
\* written the count 1 over the count 0 and still holds the guard, the other
\* waits for the lock
AtomicUpdateWitness ==
    \E t, t2 \in Threads, k \in all_keys :
        /\ t # t2
        /\ threads[t].op = "update" /\ threads[t].fn = IncFn /\ threads[t].key = k
        /\ threads[t2].op = "update" /\ threads[t2].fn = IncFn /\ threads[t2].key = k
        /\ threads[t].pc = "unlock"
        /\ threads[t2].pc = "lock"
        /\ hash_map[k] = Some(<<<<1>>, 0>>)
        /\ read_value(buckets, k) = Some(<<<<1>>, 1>>)

\* the updates of a key add up: no completed update is lost
NoLostUpdate ==
    \A k \in all_keys : Quiet(bucket_ix(k)) => read_value(buckets, k) = hash_map[k]

(***************************************************************************)
(* Fair scheduling.  Every thread that is inside a call takes its next     *)
(* step, and a thread waiting in RwLock::read or RwLock::write is granted  *)
(* the lock unless another thread never drops its guard.  Callers need not *)
(* call.                                                                   *)
(***************************************************************************)
FairWorkloads ==
    {Workload(2, None, {K1}, {<<<<1>>, 0>>}),
     Workload(1, Some(1), {K1, K2}, {<<<<>>, 0>>})}

InitFair == InitOf(FairWorkloads)

\* the loop of Bucket::insert at the largest index of the model, which stands
\* for every larger one: the home slot is computed from the first 8 bytes of
\* the key (section 4.2), so a window taken by keys with the same 8 bytes is
\* taken at every size, and the loop grows and calls try_write again
GrowBeyond(t) ==
    LET th == threads[t]
        g == Bucket_grow(buckets[th.ix].val, th.err)
    IN  /\ th.pc = "grow"
        /\ ~g.ok
        /\ th.err.type = "IndexNoSpace"
        /\ WindowTaken(buckets, th.key)
        /\ threads' = [threads EXCEPT ![t].pc = "body", ![t].err = Ok]
        /\ UNCHANGED <<buckets, hash_map, result, locks>>
        /\ ThreadFrame

\* the steps of thread t between the return of its lock call and its own return
Step(t) ==
    \/ GetBucket(t) \/ Read(t) \/ Mutate(t) \/ CallFn(t) \/ WriteBegin(t)
    \/ WriteEnd(t) \/ GrowStep(t) \/ GrowCall(t) \/ GrowBeyond(t) \/ Release(t)

\* ENABLED <<Step(t)>>_vars as a predicate of the state
Ready(t) ==
    LET th == threads[t]
        g == Bucket_grow(buckets[th.ix].val, th.err)
    IN  \/ th.pc \in {"locked", "current", "write", "unlock"}
        \/ th.pc = "body" /\ (th.op = "grow" => g.ok)
        \/ th.pc = "grow"
           /\ (g.ok \/ (th.err.type = "IndexNoSpace" /\ WindowTaken(buckets, th.key)))

\* <<Step(t)>>_vars among the steps of NextFair: at a pc of Ready only the
\* actions of Step(t) change the record of t
Advance(t) == Ready(t) /\ threads'[t] # threads[t]

\* WF_vars(Step(t)) with its two parts written as Ready and Advance
WeaklyFairStep(t) == ([]<>~Ready(t)) \/ ([]<><<Advance(t)>>_vars)

\* thread t is in its lock call and cannot return because of a guard of u
Blocks(u, t) ==
    /\ threads[t].pc = "lock"
    /\ \E g \in locks[threads[t].ix] :
           /\ g.thread = u
           /\ (g.mode = "write" \/ lock_mode(threads[t].op) = "write")

\* a fair RwLock: a lock call returns unless one thread keeps a guard that
\* excludes it for ever.  Threads that take and drop the lock in turns do not
\* keep a waiting thread out.
FairLock(t) ==
    \/ []<>(threads[t].pc # "lock")
    \/ \E u \in Threads \ {t} : <>[]Blocks(u, t)

Fairness == \A t \in Threads : FairLock(t) /\ WF_vars(Release(t)) /\ WeaklyFairStep(t)

\* an error of a size the model can grow from, whenever the grow runs
GrowInBounds(e) ==
    e.pow < (IF e.type = "IndexNoSpace" THEN MaxIndexPow ELSE MaxDataPow)

NextFair ==
    \/ \E t \in Threads, k \in all_keys :
           Invoke(t, "read_value", k, bucket_ix(k), NoneFn, <<<<>>, 0>>, Ok)
    \/ \E t \in Threads, ix \in DOMAIN buckets, op \in {"bucket_len", "items_in_range", "keys"} :
           Invoke(t, op, <<>>, ix, NoneFn, <<<<>>, 0>>, Ok)
    \/ \E t \in Threads, k \in all_keys, w \in all_values, op \in {"insert", "try_insert"} :
           Invoke(t, op, k, bucket_ix(k), SetFn(w), w, Ok)
    \/ \E t \in Threads, ix \in DOMAIN buckets :
           /\ result.some
           /\ GrowInBounds(result.val)
           /\ Invoke(t, "grow", <<>>, ix, NoneFn, <<<<>>, 0>>, result.val)
    \/ \E t \in Threads, k \in all_keys, f \in {IncFn, NoneFn} :
           /\ f = IncFn => RefBelow(k)
           /\ Invoke(t, "update", k, bucket_ix(k), f, <<<<>>, 0>>, Ok)
    \/ \E t \in Threads, k \in all_keys, op \in {"delete_key", "addref", "unref"} :
           /\ op = "addref" => RefBelow(k)
           /\ Invoke(t, op, k, bucket_ix(k), NoneFn, <<<<>>, 0>>, Ok)
    \/ \E t \in Threads : Acquire(t)
    \/ \E t \in Threads : GetBucket(t)
    \/ \E t \in Threads : Read(t)
    \/ \E t \in Threads : Mutate(t)
    \/ \E t \in Threads : CallFn(t)
    \/ \E t \in Threads : WriteBegin(t)
    \/ \E t \in Threads : WriteEnd(t)
    \/ \E t \in Threads : GrowStep(t)
    \/ \E t \in Threads : GrowCall(t)
    \/ \E t \in Threads : GrowBeyond(t)
    \/ \E t \in Threads : Release(t)

SpecFair == InitFair /\ [][NextFair]_vars /\ Fairness

\* the shards thread t holds a guard of
Held(t) == {ix \in DOMAIN locks : \E g \in locks[ix] : g.thread = t}

\* a thread holds no guard outside a call and while it waits for its lock, and
\* the guard of the one shard of its call in between
OneShardLock ==
    \A t \in Threads :
        LET th == threads[t]
        IN  IF th.pc \in {"idle", "lock"} THEN Held(t) = {} ELSE Held(t) = {th.ix}

\* a lock call returns whenever the guards out on its own shard allow it,
\* whatever guards are out on the other shards
NoCrossShardWait ==
    \A t \in Threads :
        LET th == threads[t]
        IN  (th.pc = "lock" /\ \A u \in Threads \ {t} : th.ix \notin Held(u))
                => ENABLED <<Acquire(t)>>_vars

\* thread u is in the loop of Bucket::insert, from insert or from an update
\* that writes, for a key whose window is taken
Looping(u) ==
    /\ threads[u].pc \in {"body", "write", "grow"}
    /\ threads[u].op \in {"insert", "update"}
    /\ WindowTaken(buckets, threads[u].key)

\* every call returns
EveryCallReturns ==
    \A t \in Threads : (threads[t].pc # "idle") ~> (threads[t].pc = "idle")

\* every call returns unless a write loops on the shard of the call
ReturnsUnlessLooping ==
    \A t \in Threads :
        (threads[t].pc # "idle")
            ~> (\/ threads[t].pc = "idle"
                \/ \E u \in Threads : Looping(u) /\ threads[u].ix = threads[t].ix)

====
